---- MODULE Spec2Model ----
(***************************************************************************)
(* Model of the PetitChat banner animator                                  *)
(* (src/vibe/cli/textual_ui/widgets/banner/petit_chat.py): a sparse set of  *)
(* lit dots, a cyclic table of remove/add deltas, and a timer-driven       *)
(* handler that applies one delta per tick and stops only at cursor 0      *)
(* once a freeze has been requested.                                       *)
(***************************************************************************)
EXTENDS Integers, Sequences, FiniteSets, TLC

VARIABLES
    chat,         \* the PetitChat instance: its fields and its Textual timer
    shadow,       \* a second PetitChat instance
    heap,         \* the module-level objects: STARTING_DOTS, the delta sets
    extra_calls,  \* freeze_animation() calls made on shadow only (saturating)
    last_op,      \* the operation that produced the current state
    freeze_at,    \* cursor at the first freeze_animation() call, -1 before
    delta_ticks,  \* delta-applying ticks since the first freeze request
    loops,        \* completed passes over TRANSITIONS (saturating)
    grid,         \* input coordinate set of a single delta application
    delta,        \* input delta of a single delta application
    result,       \* outcome of a single delta application
    pc,           \* position of the single delta application or render
    canvas,       \* input of a single render: dots, width, height
    text,         \* output of a single render: a sequence of codepoints
    app,          \* the AgentApp settings panel: its fields
    outbox,       \* what the panel's last operation posted, and if it raised
    run           \* toggles of the selected setting since it was selected

vars == <<chat, shadow, heap, extra_calls, last_op, freeze_at, delta_ticks, loops,
          grid, delta, result, pc, canvas, text, app, outbox, run>>

----------------------------------------------------------------------------
(* Bounds of the model *)

\* saturation point of the loops counter
MaxLoops == 2

\* saturation point of the delta_ticks counter
MaxCount == 27

\* saturation point of the extra_calls counter
MaxExtra == 2

\* largest width, height and number of lit dots of a generic render input
MaxW == 5

MaxH == 9

MaxDots == 2

\* number of distinct option strings, longest options list, and saturation
\* point of the count of consecutive toggles
MaxValues == 3

MaxOptions == 3

MaxRun == 4

\* columns of the small grid that generic delta applications range over
ApplyCols == 3

----------------------------------------------------------------------------
(* Authored data *)

WIDTH == 22

HEIGHT == 12

\* variant: the key built as 1j * x + y, row and column exchanged
Dot_swapped(y, x) == <<x, y>>

\* the composite key 1j * y + x: one value per (row, column) pair
Dot(y, x) == <<y, x>>

STARTING_DOTS ==
    << {},
       {6, 7, 15, 19},
       {5, 8, 14, 16, 18, 20},
       {4, 6, 7, 14, 17, 20},
       {3, 5, 10, 11, 12, 14, 20},
       {3, 5, 9, 13, 14, 16, 18, 20},
       {3, 5, 8, 13, 17, 21},
       {3, 6, 7, 8, 11, 14, 15, 16, 18, 19, 20},
       {4, 5, 8, 12, 17, 19},
       {6, 7, 8, 13, 18, 20},
       {9, 10, 11, 12, 13, 14, 15, 16, 17, 18, 19, 20},
       {} >>

QUEUE_RIGHT_TO_MID ==
    [remove |-> {Dot(1, 6), Dot(1, 7), Dot(2, 8), Dot(3, 4), Dot(3, 6),
                 Dot(3, 7), Dot(8, 4), Dot(8, 5)},
     add    |-> {Dot(1, 4), Dot(2, 3), Dot(3, 3), Dot(3, 5), Dot(7, 5),
                 Dot(8, 3), Dot(9, 4), Dot(9, 5)}]

QUEUE_MID_TO_LEFT ==
    [remove |-> {Dot(1, 4), Dot(2, 5), Dot(3, 3), Dot(3, 5), Dot(7, 5),
                 Dot(8, 3), Dot(9, 4), Dot(9, 5)},
     add    |-> {Dot(1, 1), Dot(1, 2), Dot(2, 0), Dot(3, 1), Dot(3, 2),
                 Dot(3, 4), Dot(8, 4), Dot(8, 5)}]

HEAD_RIGHT ==
    [remove |-> {Dot(5, 16), Dot(5, 18), Dot(6, 17)},
     add    |-> {Dot(5, 17), Dot(5, 19), Dot(6, 18)}]

HEAD_LEFT ==
    [remove |-> {Dot(5, 17), Dot(5, 19), Dot(6, 18)},
     add    |-> {Dot(5, 16), Dot(5, 18), Dot(6, 17)}]

HEAD_DOWN ==
    [remove |-> {Dot(1, 15), Dot(1, 19), Dot(2, 14), Dot(2, 16),
                 Dot(2, 18), Dot(2, 20), Dot(3, 17), Dot(5, 17),
                 Dot(5, 19), Dot(6, 13), Dot(6, 18), Dot(6, 21),
                 Dot(7, 14), Dot(7, 15), Dot(7, 16), Dot(7, 19), Dot(7, 20)},
     add    |-> {Dot(2, 15), Dot(2, 19), Dot(3, 16), Dot(3, 18),
                 Dot(4, 17), Dot(6, 14), Dot(6, 17), Dot(6, 19),
                 Dot(6, 20), Dot(7, 13), Dot(7, 18), Dot(7, 21),
                 Dot(8, 14), Dot(8, 15), Dot(8, 16), Dot(8, 18), Dot(8, 20)}]

\* variant: HEAD_UP authored as the mirror image of HEAD_DOWN
HEAD_UP_mirror == [remove |-> HEAD_DOWN.add, add |-> HEAD_DOWN.remove]

HEAD_UP ==
    [remove |-> {Dot(2, 15), Dot(2, 19), Dot(3, 16), Dot(3, 18),
                 Dot(4, 17), Dot(6, 14), Dot(6, 17), Dot(6, 19),
                 Dot(6, 20), Dot(7, 13), Dot(7, 18), Dot(7, 21),
                 Dot(8, 14), Dot(8, 15), Dot(8, 16), Dot(8, 18), Dot(8, 20)},
     add    |-> {Dot(1, 15), Dot(1, 19), Dot(2, 14), Dot(2, 16),
                 Dot(2, 18), Dot(2, 20), Dot(3, 17), Dot(5, 17),
                 Dot(5, 19), Dot(6, 13), Dot(6, 18), Dot(6, 21),
                 Dot(7, 14), Dot(7, 15), Dot(7, 16), Dot(7, 18),
                 Dot(7, 19), Dot(7, 20)}]

BLINK_EYES_HEAD_HIGH ==
    << [remove |-> {Dot(5, 16), Dot(5, 18)}, add |-> {}],
       [remove |-> {}, add |-> {Dot(5, 16), Dot(5, 18)}] >>

BLINK_EYES_HEAD_LOW ==
    << [remove |-> {Dot(6, 17), Dot(6, 19)}, add |-> {}],
       [remove |-> {}, add |-> {Dot(6, 17), Dot(6, 19)}] >>

QUEUE_MID_TO_RIGHT ==
    [remove |-> QUEUE_RIGHT_TO_MID.add, add |-> QUEUE_RIGHT_TO_MID.remove]

\* variant: QUEUE_LEFT_TO_MID copied from the right-hand pair
QUEUE_LEFT_TO_MID_copied ==
    [remove |-> QUEUE_RIGHT_TO_MID.add, add |-> QUEUE_RIGHT_TO_MID.remove]

QUEUE_LEFT_TO_MID ==
    [remove |-> QUEUE_MID_TO_LEFT.add, add |-> QUEUE_MID_TO_LEFT.remove]

WAIT == [remove |-> {}, add |-> {}]

TRANSITIONS ==
    BLINK_EYES_HEAD_HIGH \o
    << WAIT,
       QUEUE_RIGHT_TO_MID,
       HEAD_RIGHT,
       WAIT,
       QUEUE_MID_TO_LEFT,
       WAIT,
       QUEUE_LEFT_TO_MID,
       WAIT,
       HEAD_DOWN,
       WAIT,
       QUEUE_MID_TO_RIGHT >> \o
    BLINK_EYES_HEAD_LOW \o
    << WAIT,
       QUEUE_RIGHT_TO_MID,
       WAIT,
       QUEUE_MID_TO_LEFT,
       WAIT,
       HEAD_UP,
       WAIT,
       QUEUE_LEFT_TO_MID,
       HEAD_LEFT,
       WAIT,
       QUEUE_MID_TO_RIGHT >>

\* len(TRANSITIONS)
N == Len(TRANSITIONS)

\* {1j * y + x for y, row in enumerate(STARTING_DOTS) for x in row}
InitialDots ==
    UNION { {Dot(y, x) : x \in STARTING_DOTS[y + 1]} :
            y \in 0..(Len(STARTING_DOTS) - 1) }

----------------------------------------------------------------------------
(* The module-level objects behind the table.  Each dict literal owns two  *)
(* set objects; QUEUE_MID_TO_RIGHT and QUEUE_LEFT_TO_MID own none and      *)
(* refer to the sets of QUEUE_RIGHT_TO_MID and QUEUE_MID_TO_LEFT; WAIT is  *)
(* one dict that TRANSITIONS lists eleven times.                           *)

\* the dict literals, by name
OwnedDeltas ==
    ("QUEUE_RIGHT_TO_MID" :> QUEUE_RIGHT_TO_MID) @@
    ("QUEUE_MID_TO_LEFT" :> QUEUE_MID_TO_LEFT) @@
    ("WAIT" :> WAIT) @@
    ("HEAD_RIGHT" :> HEAD_RIGHT) @@
    ("HEAD_LEFT" :> HEAD_LEFT) @@
    ("HEAD_DOWN" :> HEAD_DOWN) @@
    ("HEAD_UP" :> HEAD_UP) @@
    ("BLINK_EYES_HEAD_HIGH_0" :> BLINK_EYES_HEAD_HIGH[1]) @@
    ("BLINK_EYES_HEAD_HIGH_1" :> BLINK_EYES_HEAD_HIGH[2]) @@
    ("BLINK_EYES_HEAD_LOW_0" :> BLINK_EYES_HEAD_LOW[1]) @@
    ("BLINK_EYES_HEAD_LOW_1" :> BLINK_EYES_HEAD_LOW[2])

\* the state of the module after import: every set object by reference
ModuleHeap ==
    [sets     |-> [r \in (DOMAIN OwnedDeltas) \X {"remove", "add"} |->
                     IF r[2] = "remove" THEN OwnedDeltas[r[1]].remove
                     ELSE OwnedDeltas[r[1]].add],
     starting |-> STARTING_DOTS]

\* a dict built from its own two set literals
Own(n) == [remove |-> <<n, "remove">>, add |-> <<n, "add">>]

\* a dict built as {"remove": other["add"], "add": other["remove"]}
Mirror(n) == [remove |-> <<n, "add">>, add |-> <<n, "remove">>]

\* TRANSITIONS as the list of dicts of references it is
TRANSITION_REFS ==
    << Own("BLINK_EYES_HEAD_HIGH_0"),
       Own("BLINK_EYES_HEAD_HIGH_1"),
       Own("WAIT"),
       Own("QUEUE_RIGHT_TO_MID"),
       Own("HEAD_RIGHT"),
       Own("WAIT"),
       Own("QUEUE_MID_TO_LEFT"),
       Own("WAIT"),
       Mirror("QUEUE_MID_TO_LEFT"),
       Own("WAIT"),
       Own("HEAD_DOWN"),
       Own("WAIT"),
       Mirror("QUEUE_RIGHT_TO_MID"),
       Own("BLINK_EYES_HEAD_LOW_0"),
       Own("BLINK_EYES_HEAD_LOW_1"),
       Own("WAIT"),
       Own("QUEUE_RIGHT_TO_MID"),
       Own("WAIT"),
       Own("QUEUE_MID_TO_LEFT"),
       Own("WAIT"),
       Own("HEAD_UP"),
       Own("WAIT"),
       Mirror("QUEUE_MID_TO_LEFT"),
       Own("HEAD_LEFT"),
       Own("WAIT"),
       Mirror("QUEUE_RIGHT_TO_MID") >>

\* the delta a dict of references denotes in heap h
Deref(h, t) == [remove |-> h.sets[t.remove], add |-> h.sets[t.add]]

----------------------------------------------------------------------------
(* Set operations of a tick *)

\* s -= other : in-place difference, never raises
SetISub(s, other) == s \ other

\* s |= other : in-place union, never raises
SetIOr(s, other) == s \cup other

\* variant: removal by set.remove(), which raises KeyError on an absent dot
ApplyDelta_strict(d, t) ==
    IF t.remove \subseteq d
    THEN [dots |-> SetIOr(SetISub(d, t.remove), t.add), raised |-> FALSE]
    ELSE [dots |-> d, raised |-> TRUE]

\* variant: the union is done before the difference
ApplyDelta_add_first(d, t) ==
    [dots |-> SetISub(SetIOr(d, t.add), t.remove), raised |-> FALSE]

\* self._dots -= transition["remove"]; self._dots |= transition["add"]
ApplyDelta(d, t) ==
    [dots |-> SetIOr(SetISub(d, t.remove), t.add), raised |-> FALSE]

----------------------------------------------------------------------------
(* render_braille: packing of 2 x 4 blocks of dots into block characters.  *)
(* vibe/cli/textual_ui/widgets/braille_renderer.py is not among the        *)
(* sources; these definitions follow the CellRenderer contract.            *)

\* codepoint of the block character with all dots off
BRAILLE_BASE == 10240

\* codepoint of the line break that joins rows of cells
LINE_BREAK == 10

\* row and column of a composite key
Row(c) == c[1]

Col(c) == c[2]

\* variant: the number of cells rounded down
CeilDiv_floor(a, b) == a \div b

\* ceil(a / b)
CeilDiv(a, b) == (a + b - 1) \div b

\* variant: dots numbered row by row
DotBit_row_major(ro, co) == 2 * ro + co

\* bit of the sub-position (row offset, column offset) of a cell:
\* (0,0),(1,0),(2,0),(0,1),(1,1),(2,1),(3,0),(3,1) -> 0..7
DotBit(ro, co) == IF ro < 3 THEN ro + 3 * co ELSE 6 + co

RECURSIVE Pow2(_)
Pow2(n) == IF n = 0 THEN 1 ELSE 2 * Pow2(n - 1)

\* the bits of the lit dots that fall inside cell (cr, cc)
CellBits(dots, cr, cc) ==
    { DotBit(Row(c) % 4, Col(c) % 2) :
        c \in {d \in dots : Row(d) \div 4 = cr /\ Col(d) \div 2 = cc} }

\* the OR of bits 0..b-1 of a set of bits
RECURSIVE OrBits(_, _)
OrBits(bits, b) ==
    IF b = 0 THEN 0
    ELSE OrBits(bits, b - 1) + (IF (b - 1) \in bits THEN Pow2(b - 1) ELSE 0)

CellChar(dots, cr, cc) == BRAILLE_BASE + OrBits(CellBits(dots, cr, cc), 8)

\* one row of cells, left to right
CellLine(dots, W, cr) ==
    [k \in 1..CeilDiv(W, 2) |-> CellChar(dots, cr, k - 1)]

\* rows of cells 0..n-1 joined by line breaks
RECURSIVE JoinLines(_, _, _)
JoinLines(dots, W, n) ==
    IF n = 0 THEN <<>>
    ELSE IF n = 1 THEN CellLine(dots, W, 0)
    ELSE JoinLines(dots, W, n - 1) \o <<LINE_BREAK>>
           \o CellLine(dots, W, n - 1)

render_braille(dots, W, H) == JoinLines(dots, W, CeilDiv(H, 4))

----------------------------------------------------------------------------
(* The PetitChat object *)

\* PetitChat.__init__; clock is the state of the Textual Timer that
\* set_interval returns ("unset" until one is created)
PetitChat(animate) ==
    [dots             |-> InitialDots,
     transition_index |-> 0,
     do_animate       |-> animate,
     freeze_requested |-> FALSE,
     timer            |-> "None",
     clock            |-> "unset",
     mounted          |-> FALSE,
     composed         |-> FALSE,
     inner            |-> <<>>]

\* PetitChat.compose: the Static that on_mount looks up as self._inner is
\* created holding the render of the current dots
compose(self) ==
    [self EXCEPT !.composed = TRUE,
                 !.inner = render_braille(self.dots, WIDTH, HEIGHT)]

\* variant: the timer is created whether or not animation is enabled
on_mount_always(self) ==
    [self EXCEPT !.mounted = TRUE, !.timer = "Timer", !.clock = "running"]

\* PetitChat.on_mount
on_mount(self) ==
    IF self.do_animate
    THEN [self EXCEPT !.mounted = TRUE, !.timer = "Timer",
                      !.clock = "running"]
    ELSE [self EXCEPT !.mounted = TRUE]

\* variant: the request flips the flag instead of setting it
freeze_animation_toggle(self) ==
    [self EXCEPT !.freeze_requested = ~self.freeze_requested]

\* variant: the request stops the timer itself when the cursor is at 0
freeze_animation_stop_now(self) ==
    IF self.transition_index = 0 /\ self.timer = "Timer"
    THEN [self EXCEPT !.freeze_requested = TRUE, !.timer = "None",
                      !.clock = "stopped"]
    ELSE [self EXCEPT !.freeze_requested = TRUE]

\* PetitChat.freeze_animation
freeze_animation(self) == [self EXCEPT !.freeze_requested = TRUE]

\* variant: the stop branch ignores the cursor
apply_next_transition_eager(self) ==
    IF self.freeze_requested
    THEN [self EXCEPT
            !.clock = IF self.timer = "Timer" THEN "stopped" ELSE @,
            !.timer = "None"]
    ELSE LET transition == TRANSITIONS[self.transition_index + 1]
         IN  [self EXCEPT
                !.dots = ApplyDelta(@, transition).dots,
                !.transition_index = (@ + 1) % N,
                !.inner = render_braille(ApplyDelta(self.dots, transition).dots,
                                         WIDTH, HEIGHT)]

\* variant: the stop branch lacks its return and falls through to the delta
apply_next_transition_fallthrough(self) ==
    LET transition == TRANSITIONS[self.transition_index + 1]
        stepped == [self EXCEPT
                      !.dots = ApplyDelta(@, transition).dots,
                      !.transition_index = (@ + 1) % N,
                      !.inner = render_braille(ApplyDelta(self.dots, transition).dots,
                                               WIDTH, HEIGHT)]
    IN  IF self.freeze_requested /\ self.transition_index = 0
        THEN [stepped EXCEPT
                !.clock = IF self.timer = "Timer" THEN "stopped" ELSE @,
                !.timer = "None"]
        ELSE stepped

\* variant: the stop branch is taken only while a timer is still held
apply_next_transition_guarded(self) ==
    IF self.freeze_requested /\ self.transition_index = 0
       /\ self.timer = "Timer"
    THEN [self EXCEPT !.clock = "stopped", !.timer = "None"]
    ELSE LET transition == TRANSITIONS[self.transition_index + 1]
         IN  [self EXCEPT
                !.dots = ApplyDelta(@, transition).dots,
                !.transition_index = (@ + 1) % N,
                !.inner = render_braille(ApplyDelta(self.dots, transition).dots,
                                         WIDTH, HEIGHT)]

\* variant: the stop branch returns without stopping the timer
apply_next_transition_no_stop(self) ==
    IF self.freeze_requested /\ self.transition_index = 0
    THEN self
    ELSE LET transition == TRANSITIONS[self.transition_index + 1]
         IN  [self EXCEPT
                !.dots = ApplyDelta(@, transition).dots,
                !.transition_index = (@ + 1) % N,
                !.inner = render_braille(ApplyDelta(self.dots, transition).dots,
                                         WIDTH, HEIGHT)]

\* variant: the cursor is wrapped at the table lookup, not when it is stored
apply_next_transition_unwrapped(self) ==
    IF self.freeze_requested /\ self.transition_index = 0
    THEN [self EXCEPT
            !.clock = IF self.timer = "Timer" THEN "stopped" ELSE @,
            !.timer = "None"]
    ELSE LET transition == TRANSITIONS[(self.transition_index % N) + 1]
         IN  [self EXCEPT
                !.dots = ApplyDelta(@, transition).dots,
                !.transition_index = @ + 1,
                !.inner = render_braille(ApplyDelta(self.dots, transition).dots,
                                         WIDTH, HEIGHT)]

\* variant: the display is updated before the dots are changed
apply_next_transition_stale_update(self) ==
    IF self.freeze_requested /\ self.transition_index = 0
    THEN [self EXCEPT
            !.clock = IF self.timer = "Timer" THEN "stopped" ELSE @,
            !.timer = "None"]
    ELSE LET transition == TRANSITIONS[self.transition_index + 1]
         IN  [self EXCEPT
                !.inner = render_braille(self.dots, WIDTH, HEIGHT),
                !.dots = ApplyDelta(@, transition).dots,
                !.transition_index = (@ + 1) % N]

\* PetitChat._apply_next_transition
apply_next_transition(self) ==
    IF self.freeze_requested /\ self.transition_index = 0
    THEN [self EXCEPT
            !.clock = IF self.timer = "Timer" THEN "stopped" ELSE @,
            !.timer = "None"]
    ELSE LET transition == TRANSITIONS[self.transition_index + 1]
         IN  [self EXCEPT
                !.dots = ApplyDelta(@, transition).dots,
                !.transition_index = (@ + 1) % N,
                !.inner = render_braille(ApplyDelta(self.dots, transition).dots,
                                         WIDTH, HEIGHT)]

\* variant: the new pose is accumulated in the delta's own add set
apply_next_transition_shared_in_place(self, h) ==
    IF self.freeze_requested /\ self.transition_index = 0
    THEN [self |-> [self EXCEPT
                      !.clock = IF self.timer = "Timer" THEN "stopped"
                                ELSE @,
                      !.timer = "None"],
          heap |-> h]
    ELSE LET transition == TRANSITION_REFS[self.transition_index + 1]
             kept == SetISub(self.dots, h.sets[transition.remove])
             lit == SetIOr(h.sets[transition.add], kept)
         IN  [self |-> [self EXCEPT
                          !.dots = lit,
                          !.transition_index = (@ + 1) % N,
                          !.inner = render_braille(lit, WIDTH, HEIGHT)],
              heap |-> [h EXCEPT !.sets[transition.add] = lit]]

\* PetitChat._apply_next_transition with the module-level objects explicit:
\* the sets of the table are read through their references, and the result
\* names the heap the call leaves behind
apply_next_transition_shared(self, h) ==
    IF self.freeze_requested /\ self.transition_index = 0
    THEN [self |-> [self EXCEPT
                      !.clock = IF self.timer = "Timer" THEN "stopped"
                                ELSE @,
                      !.timer = "None"],
          heap |-> h]
    ELSE LET transition == TRANSITION_REFS[self.transition_index + 1]
             kept == SetISub(self.dots, h.sets[transition.remove])
             lit == SetIOr(kept, h.sets[transition.add])
         IN  [self |-> [self EXCEPT
                          !.dots = lit,
                          !.transition_index = (@ + 1) % N,
                          !.inner = render_braille(lit, WIDTH, HEIGHT)],
              heap |-> h]

\* self._dots when the cursor is i, first pass
RECURSIVE PoseAt(_)
PoseAt(i) ==
    IF i = 0 THEN InitialDots
    ELSE ApplyDelta(PoseAt(i - 1), TRANSITIONS[i]).dots

Running(self) == self.clock = "running"

Stopped(self) == self.clock = "stopped"

----------------------------------------------------------------------------
(* The AgentApp settings panel (agent_app.py).  Strings are numbered       *)
(* 1..MaxValues in their sort order; a dict is a function on its keys.     *)

EmptyDict == [k \in {} |-> 0]

\* d[k] = v
DictSet(d, k, v) ==
    [x \in (DOMAIN d) \cup {k} |-> IF x = k THEN v ELSE d[x]]

Range(seq) == {seq[k] : k \in 1..Len(seq)}

\* AgentApp.__init__: the two settings built from the agent loop
AgentApp(agent_options, model_options, agent_profile, active_model) ==
    [agent_loop      |-> [agent_profile |-> agent_profile,
                          active_model  |-> active_model],
     selected_index  |-> 0,
     agent_changes   |-> EmptyDict,
     model_changes   |-> EmptyDict,
     settings        |-> << [key |-> "agent", label |-> "Agent",
                             options |-> agent_options,
                             category |-> "agent"],
                            [key |-> "active_model", label |-> "Model",
                             options |-> model_options,
                             category |-> "model"] >>,
     setting_widgets |-> <<>>,
     mounted         |-> FALSE]

\* AgentApp._get_display_value
get_display_value(self, setting) ==
    LET key == setting.key IN
    IF key \in DOMAIN self.agent_changes THEN self.agent_changes[key]
    ELSE IF key \in DOMAIN self.model_changes THEN self.model_changes[key]
    ELSE IF key = "agent" THEN self.agent_loop.agent_profile
    ELSE IF key = "active_model" THEN self.agent_loop.active_model
    ELSE 0

\* AgentApp._update_display: text and class of each setting widget
update_display(self) ==
    [self EXCEPT !.setting_widgets =
       [i \in 1..Len(self.settings) |->
          LET is_selected == (i - 1 = self.selected_index) IN
          [cursor |-> is_selected,
           label  |-> self.settings[i].label,
           value  |-> get_display_value(self, self.settings[i]),
           class  |-> IF is_selected THEN "settings-value-cycle-selected"
                      ELSE "settings-value-cycle-unselected"]]]

\* AgentApp.compose: one widget per setting, text still empty
app_compose(self) ==
    [self EXCEPT !.setting_widgets =
       [i \in 1..Len(self.settings) |->
          [cursor |-> FALSE, label |-> "", value |-> 0,
           class |-> "settings-option"]]]

\* AgentApp.on_mount
app_on_mount(self) == [update_display(self) EXCEPT !.mounted = TRUE]

\* AgentApp.action_move_up
action_move_up(self) ==
    update_display([self EXCEPT
                      !.selected_index = (@ - 1) % Len(self.settings)])

\* AgentApp.action_move_down
action_move_down(self) ==
    update_display([self EXCEPT
                      !.selected_index = (@ + 1) % Len(self.settings)])

\* list.index: 0-based position of the first occurrence, or ValueError
ListIndex(options, value) ==
    IF value \in Range(options)
    THEN [exc |-> "none",
          idx |-> (CHOOSE k \in 1..Len(options) :
                     /\ options[k] = value
                     /\ \A j \in 1..(k - 1) : options[j] # value) - 1]
    ELSE [exc |-> "ValueError", idx |-> -1]

\* variant: an except clause for IndexError alone
CaughtByToggle_index_only == {"IndexError"}

\* except (ValueError, IndexError)
CaughtByToggle == {"ValueError", "IndexError"}

\* variant: the try block steps to the previous option
NextOption_backwards(options, current) ==
    LET found == ListIndex(options, current) IN
    IF found.exc # "none" THEN [exc |-> found.exc, value |-> 0]
    ELSE LET next_idx == (found.idx - 1) % Len(options) IN
         [exc |-> "none", value |-> options[next_idx + 1]]

\* the try block of action_toggle_setting: the next option, or the
\* exception that leaves the block
NextOption(options, current) ==
    LET found == ListIndex(options, current) IN
    IF found.exc # "none" THEN [exc |-> found.exc, value |-> 0]
    ELSE LET next_idx == (found.idx + 1) % Len(options) IN
         IF next_idx + 1 \in 1..Len(options)
         THEN [exc |-> "none", value |-> options[next_idx + 1]]
         ELSE [exc |-> "IndexError", value |-> 0]

\* variant: the change is filed under the other category
action_toggle_setting_misfiled(self) ==
    LET setting == self.settings[self.selected_index + 1]
        key == setting.key
        current == get_display_value(self, setting)
        options == setting.options
        tried == NextOption(options, current)
        new_value == IF tried.exc = "none" THEN tried.value
                     ELSE IF options # <<>> THEN options[1] ELSE current
    IN  IF setting.category # "agent"
        THEN [self   |-> update_display(
                           [self EXCEPT !.agent_changes =
                              DictSet(@, key, new_value)]),
              posted |-> << [type |-> "AgentChanged",
                             value |-> new_value] >>,
              raised |-> FALSE]
        ELSE [self   |-> update_display(
                           [self EXCEPT !.model_changes =
                              DictSet(@, key, new_value)]),
              posted |-> << [type |-> "ModelChanged",
                             value |-> new_value] >>,
              raised |-> FALSE]

\* AgentApp.action_toggle_setting: the panel after the call, the messages
\* it posted, and whether an exception left the method
action_toggle_setting(self) ==
    LET setting == self.settings[self.selected_index + 1]
        key == setting.key
        current == get_display_value(self, setting)
        options == setting.options
        tried == NextOption(options, current)
        new_value == IF tried.exc = "none" THEN tried.value
                     ELSE IF options # <<>> THEN options[1] ELSE current
    IN  IF tried.exc # "none" /\ tried.exc \notin CaughtByToggle
        THEN [self |-> self, posted |-> <<>>, raised |-> TRUE]
        ELSE IF setting.category = "agent"
        THEN [self   |-> update_display(
                           [self EXCEPT !.agent_changes =
                              DictSet(@, key, new_value)]),
              posted |-> << [type |-> "AgentChanged",
                             value |-> new_value] >>,
              raised |-> FALSE]
        ELSE [self   |-> update_display(
                           [self EXCEPT !.model_changes =
                              DictSet(@, key, new_value)]),
              posted |-> << [type |-> "ModelChanged",
                             value |-> new_value] >>,
              raised |-> FALSE]

\* AgentApp.action_cycle
action_cycle(self) == action_toggle_setting(self)

\* AgentApp.action_close: the message it posts
action_close(self) ==
    << [type |-> "AgentClosed",
        agent_changes |-> self.agent_changes,
        model_changes |-> self.model_changes] >>

----------------------------------------------------------------------------
(* Bookkeeping shared by the specifications *)

Min(a, b) == IF a < b THEN a ELSE b

\* the tick from self applied a delta (it did not take the stop branch)
AppliesDelta(self) == ~(self.freeze_requested /\ self.transition_index = 0)

IdleApply ==
    /\ grid = {}
    /\ delta = WAIT
    /\ result = [dots |-> {}, raised |-> FALSE]
    /\ pc = "idle"

applyVars == <<grid, delta, result, pc>>

idemVars == <<shadow, extra_calls>>

renderVars == <<canvas, text>>

panelVars == <<app, outbox, run>>

IdlePanel ==
    /\ app = AgentApp(<<>>, <<>>, 1, 1)
    /\ outbox = [posted |-> <<>>, raised |-> FALSE]
    /\ run = [start |-> 1, len |-> 0]

\* everything the animator's own operations leave alone
auxVars == <<applyVars, renderVars, heap, panelVars>>

IdleRender ==
    /\ canvas = [dots |-> {}, W |-> WIDTH, H |-> HEIGHT]
    /\ text = <<>>

Count(self) ==
    /\ delta_ticks' = IF self.freeze_requested /\ AppliesDelta(self)
                      THEN Min(delta_ticks + 1, MaxCount)
                      ELSE delta_ticks
    /\ loops' = IF AppliesDelta(self) /\ self.transition_index = N - 1
                THEN Min(loops + 1, MaxLoops)
                ELSE loops

----------------------------------------------------------------------------
(* The animator under its host: mount, timer ticks, freeze requests *)

Init ==
    /\ \E animate \in BOOLEAN : chat = PetitChat(animate)
    /\ shadow = chat
    /\ extra_calls = 0
    /\ last_op = "init"
    /\ freeze_at = -1
    /\ delta_ticks = 0
    /\ loops = 0
    /\ IdleApply
    /\ IdleRender
    /\ heap = ModuleHeap
    /\ IdlePanel

\* the host composes the widget
Compose ==
    /\ ~chat.composed
    /\ chat' = compose(chat)
    /\ last_op' = "compose"
    /\ UNCHANGED <<idemVars, freeze_at, delta_ticks, loops, auxVars>>

\* the host mounts the composed widget
Mount ==
    /\ chat.composed
    /\ ~chat.mounted
    /\ chat' = on_mount(chat)
    /\ last_op' = "mount"
    /\ UNCHANGED <<idemVars, freeze_at, delta_ticks, loops, auxVars>>

\* the host calls freeze_animation()
Freeze ==
    /\ chat' = freeze_animation(chat)
    /\ freeze_at' = IF freeze_at = -1 THEN chat.transition_index
                    ELSE freeze_at
    /\ last_op' = "freeze"
    /\ UNCHANGED <<idemVars, delta_ticks, loops, auxVars>>

\* the interval timer fires
Tick ==
    /\ Running(chat)
    /\ chat' = apply_next_transition(chat)
    /\ Count(chat)
    /\ last_op' = "tick"
    /\ UNCHANGED <<idemVars, freeze_at, auxVars>>

\* a callback that was already queued when the timer was stopped runs
StaleTick ==
    /\ Stopped(chat)
    /\ chat' = apply_next_transition(chat)
    /\ Count(chat)
    /\ last_op' = "stale_tick"
    /\ UNCHANGED <<idemVars, freeze_at, auxVars>>

Next == Compose \/ Mount \/ Freeze \/ Tick \/ StaleTick

Spec == Init /\ [][Next]_vars

\* the clock keeps firing while it is active
FairSpec == Spec /\ WF_vars(Tick)

----------------------------------------------------------------------------
(* Properties of the animator *)

\* the pose one tick after pose d at cursor i, written with plain set algebra
PoseAfter(d, i) == (d \ TRANSITIONS[i + 1].remove) \cup TRANSITIONS[i + 1].add

InBounds(c) == c[1] \in 0..(HEIGHT - 1) /\ c[2] \in 0..(WIDTH - 1)

\* C1 - Closure: after the first full pass over the 26 deltas of TRANSITIONS,
\* applied in order from the pose built from STARTING_DOTS, the dot set is
\* exactly the initial set again.
Closure ==
    /\ N = 26
    /\ (loops = 1 /\ chat.transition_index = 0) => chat.dots = InitialDots

ClosureReached ==
    /\ loops = 1
    /\ chat.transition_index = 0
    /\ last_op = "tick"
    /\ chat.dots = InitialDots

\* C2 - Freeze boundary: with a freeze pending and the cursor not at 0, a tick
\* still applies the next delta and leaves the timer running; with a freeze
\* pending and the cursor at 0 the dots equal the initial pose and no step
\* changes the dots or the cursor any more.
FreezeBoundary ==
    [][ /\ ( /\ chat.freeze_requested
             /\ chat.transition_index # 0
             /\ last_op' = "tick" )
           => /\ chat'.dots = PoseAfter(chat.dots, chat.transition_index)
              /\ chat'.transition_index = (chat.transition_index + 1) % N
              /\ Running(chat')
        /\ (chat.freeze_requested /\ chat.transition_index = 0)
           => /\ chat.dots = InitialDots
              /\ chat'.dots = chat.dots
              /\ chat'.transition_index = 0
              /\ chat'.freeze_requested ]_vars

FreezeBoundaryReached ==
    /\ freeze_at > 0
    /\ delta_ticks > 0
    /\ chat.transition_index = 0
    /\ Stopped(chat)
    /\ chat.dots = InitialDots

\* C3 - Tick rule: a tick with a freeze pending and the cursor at 0 stops the
\* timer and changes neither dots nor cursor; every other tick applies exactly
\* TRANSITIONS[cursor], advances the cursor by one modulo N and keeps running.
TickRule ==
    [][ last_op' = "tick" =>
          IF chat.freeze_requested /\ chat.transition_index = 0
          THEN /\ Stopped(chat')
               /\ chat'.timer = "None"
               /\ chat'.dots = chat.dots
               /\ chat'.transition_index = chat.transition_index
          ELSE /\ chat'.dots = PoseAfter(chat.dots, chat.transition_index)
               /\ chat'.transition_index = (chat.transition_index + 1) % N
               /\ Running(chat')
               /\ chat'.timer = "Timer" ]_vars

TickRuleReached ==
    /\ last_op = "tick"
    /\ Stopped(chat)
    /\ delta_ticks > 0
    /\ loops >= 1

\* C4 - freeze_animation() only sets the flag: the call leaves dots, cursor,
\* timer and clock as they were, at every cursor value; the clock goes from
\* not stopped to stopped only on a tick taken at cursor 0 with the flag set.
FreezeOnlySetsFlag ==
    [][ /\ last_op' = "freeze"
           => /\ chat'.freeze_requested
              /\ chat'.dots = chat.dots
              /\ chat'.transition_index = chat.transition_index
              /\ chat'.timer = chat.timer
              /\ chat'.clock = chat.clock
              /\ chat'.mounted = chat.mounted
        /\ (~Stopped(chat) /\ Stopped(chat'))
           => /\ last_op' = "tick"
              /\ chat.transition_index = 0
              /\ chat.freeze_requested ]_vars

FreezeOnlySetsFlagReached ==
    /\ last_op = "freeze"
    /\ chat.transition_index = 0
    /\ loops >= 1
    /\ Running(chat)

\* C6 - Stopped is absorbing: once the timer has been stopped, every later
\* step (a further freeze request, a tick that still fires) leaves the dots
\* unchanged, the cursor at 0, the flag set and the timer released.
StoppedAbsorbing ==
    [][ Stopped(chat) =>
          /\ chat.transition_index = 0
          /\ chat.freeze_requested
          /\ chat.timer = "None"
          /\ Stopped(chat')
          /\ chat'.dots = chat.dots
          /\ chat'.transition_index = 0
          /\ chat'.freeze_requested
          /\ chat'.timer = "None" ]_vars

StoppedAbsorbingReached ==
    /\ Stopped(chat)
    /\ last_op = "stale_tick"
    /\ chat.dots = InitialDots

\* C7 - Graceful stop completes: under a clock that keeps firing, a freeze
\* requested on a running animator at cursor c leads to Stopped; while it is
\* pending the number of deltas applied since the request is (cursor - c)
\* mod N, and at the stop it is (N - c) mod N, so the stopping tick is at most
\* the N-th tick after the request.
GracefulStop ==
    /\ [](chat.freeze_requested /\ Running(chat)
           => delta_ticks = (chat.transition_index + N - freeze_at) % N)
    /\ [](Stopped(chat)
           => /\ delta_ticks = (N - freeze_at) % N
              /\ delta_ticks + 1 <= N)
    /\ (chat.freeze_requested /\ Running(chat)) ~> Stopped(chat)

GracefulStopReached ==
    /\ Stopped(chat)
    /\ freeze_at = 1
    /\ delta_ticks = N - 1

\* C8 - Bounds: every lit dot, and every dot named in the remove or add set
\* of any delta of TRANSITIONS, has 0 <= row < HEIGHT and 0 <= column < WIDTH.
BoundsInvariant ==
    /\ \A c \in chat.dots : InBounds(c)
    /\ \A i \in 1..N :
         \A c \in TRANSITIONS[i].remove \cup TRANSITIONS[i].add : InBounds(c)

BoundsInvariantReached ==
    /\ Dot(6, 21) \in chat.dots
    /\ Dot(2, 0) \in chat.dots
    /\ chat.freeze_requested

\* C11 - Permanently idle start: an instance constructed with animate = false
\* never gets a timer, so in every reachable state its dots are the initial
\* pose and its cursor is 0, however often freeze_animation() is called.
IdleStart ==
    ~chat.do_animate =>
      /\ chat.dots = InitialDots
      /\ chat.transition_index = 0
      /\ chat.timer = "None"
      /\ chat.clock = "unset"

IdleStartReached ==
    /\ ~chat.do_animate
    /\ chat.mounted
    /\ chat.freeze_requested
    /\ last_op = "freeze"

\* C12 - Cursor invariant: the cursor is 0 after construction and always in
\* 0..N-1 with N = 26; a step changes it only if it is a tick that applies a
\* delta, and then from c to (c + 1) mod N.
CursorInvariant ==
    /\ [](N = 26 /\ chat.transition_index \in 0..(N - 1))
    /\ [](last_op = "init" => chat.transition_index = 0)
    /\ [][ chat'.transition_index # chat.transition_index
            => /\ last_op' = "tick"
               /\ ~(chat.freeze_requested /\ chat.transition_index = 0)
               /\ chat'.dots = PoseAfter(chat.dots, chat.transition_index)
               /\ chat'.transition_index
                    = (chat.transition_index + 1) % N ]_vars

CursorInvariantReached ==
    /\ last_op = "tick"
    /\ chat.transition_index = 0
    /\ loops >= 1
    /\ Running(chat)

\* C15 - The dots are a function of the cursor alone: in every reachable
\* state they equal the pose obtained by applying deltas 0..cursor-1 to the
\* initial pose, in the first pass and in every later one, with or without a
\* pending freeze; at cursor 0 they equal the initial pose.
PoseOfCursor ==
    /\ chat.dots = PoseAt(chat.transition_index)
    /\ chat.transition_index = 0 => chat.dots = InitialDots

PoseOfCursorReached ==
    /\ loops >= 2
    /\ chat.transition_index = 13
    /\ chat.freeze_requested
    /\ chat.dots # InitialDots

\* C16 - Display in sync: the text is handed to the display when the widget
\* is composed (the render of the initial pose, before any tick) and on each
\* delta-applying tick, and after every operation from then on the text the
\* display holds is the render of the current dots at WIDTH x HEIGHT.
DisplayInSync ==
    /\ [](IF chat.composed
          THEN chat.inner = render_braille(chat.dots, WIDTH, HEIGHT)
          ELSE chat.inner = <<>> /\ chat.dots = InitialDots)
    /\ [][ chat'.inner # chat.inner
            => last_op' \in {"compose", "tick"} ]_vars

DisplayInSyncReached ==
    /\ last_op = "tick"
    /\ chat.transition_index = 11
    /\ chat.dots # InitialDots
    /\ chat.inner = render_braille(PoseAt(11), WIDTH, HEIGHT)
    /\ chat.inner # render_braille(InitialDots, WIDTH, HEIGHT)

----------------------------------------------------------------------------
(* Two instances in lockstep: chat receives each freeze request once,      *)
(* shadow receives the same requests and any number of further ones        *)

\* what a run shows: dots, cursor, Running/Stopped
Observable(self) == <<self.dots, self.transition_index, self.clock>>

IdemInit == Init

IdemCompose ==
    /\ ~chat.composed
    /\ chat' = compose(chat)
    /\ shadow' = compose(shadow)
    /\ last_op' = "compose"
    /\ UNCHANGED <<extra_calls, freeze_at, delta_ticks, loops, auxVars>>

IdemMount ==
    /\ chat.composed
    /\ ~chat.mounted
    /\ chat' = on_mount(chat)
    /\ shadow' = on_mount(shadow)
    /\ last_op' = "mount"
    /\ UNCHANGED <<extra_calls, freeze_at, delta_ticks, loops, auxVars>>

IdemFreeze ==
    /\ chat' = freeze_animation(chat)
    /\ shadow' = freeze_animation(shadow)
    /\ freeze_at' = IF freeze_at = -1 THEN chat.transition_index
                    ELSE freeze_at
    /\ last_op' = "freeze"
    /\ UNCHANGED <<extra_calls, delta_ticks, loops, auxVars>>

\* a further request, made with or after the first one, on shadow only
IdemExtraFreeze ==
    /\ chat.freeze_requested
    /\ shadow' = freeze_animation(shadow)
    /\ extra_calls' = Min(extra_calls + 1, MaxExtra)
    /\ last_op' = "extra_freeze"
    /\ UNCHANGED <<chat, freeze_at, delta_ticks, loops, auxVars>>

\* one period of the clock: each instance whose timer is active ticks
IdemTick ==
    /\ Running(chat) \/ Running(shadow)
    /\ chat' = IF Running(chat) THEN apply_next_transition(chat) ELSE chat
    /\ shadow' = IF Running(shadow) THEN apply_next_transition(shadow)
                 ELSE shadow
    /\ IF Running(chat) THEN Count(chat)
       ELSE UNCHANGED <<delta_ticks, loops>>
    /\ last_op' = "tick"
    /\ UNCHANGED <<extra_calls, freeze_at, auxVars>>

IdemNext == IdemCompose \/ IdemMount \/ IdemFreeze \/ IdemExtraFreeze \/ IdemTick

SpecIdem == IdemInit /\ [][IdemNext]_vars

\* C5 - freeze_animation() is idempotent: a run in which further requests
\* are added at or after the first one shows, at every point, the same dots,
\* cursor and Running/Stopped state as the run without them.
FreezeIdempotent == Observable(shadow) = Observable(chat)

FreezeIdempotentReached ==
    /\ extra_calls >= 2
    /\ freeze_at > 0
    /\ delta_ticks > 0
    /\ Stopped(chat)
    /\ Stopped(shadow)

----------------------------------------------------------------------------
(* One delta applied to one coordinate set *)

SmallDots == {Dot(0, x) : x \in 0..(ApplyCols - 1)}

\* the pose and delta of tick i of the bundled animation
Bundled(i) == grid = PoseAt(i) /\ delta = TRANSITIONS[i + 1]

ApplyInit ==
    /\ chat = PetitChat(TRUE)
    /\ shadow = chat
    /\ extra_calls = 0
    /\ last_op = "init"
    /\ freeze_at = -1
    /\ delta_ticks = 0
    /\ loops = 0
    /\ \/ /\ grid \in SUBSET SmallDots
          /\ delta \in [remove : SUBSET SmallDots, add : SUBSET SmallDots]
       \/ \E i \in 0..(N - 1) : Bundled(i)
    /\ result = [dots |-> {}, raised |-> FALSE]
    /\ pc = "ready"
    /\ IdleRender
    /\ heap = ModuleHeap
    /\ IdlePanel

ApplyStep ==
    /\ pc = "ready"
    /\ result' = ApplyDelta(grid, delta)
    /\ pc' = "applied"
    /\ UNCHANGED <<chat, idemVars, last_op, freeze_at, delta_ticks, loops,
                   grid, delta, renderVars, heap, panelVars>>

ApplyNext == ApplyStep

SpecApply == ApplyInit /\ [][ApplyNext]_vars

\* C9 - Safety of deltas: applying a delta never raises; a dot in the remove
\* set that was not lit stays unlit unless the add set names it; a dot in the
\* add set that was already lit stays lit, and the other dots of the result
\* are what they would be without it in the add set.
DeltaSafety ==
    pc = "applied" =>
      /\ ~result.raised
      /\ \A c \in delta.remove \ grid :
           c \notin delta.add => c \notin result.dots
      /\ \A c \in delta.add \cap grid :
           /\ c \in result.dots
           /\ result.dots \ {c} =
                ((grid \ delta.remove) \cup (delta.add \ {c})) \ {c}

DeltaSafetyReached ==
    /\ pc = "applied"
    /\ delta.remove \ (grid \cup delta.add) # {}
    /\ (delta.add \cap grid) \ delta.remove # {}
    /\ ~result.raised

----------------------------------------------------------------------------
(* One render of one coordinate set *)

\* the subsets of S with at most k elements
RECURSIVE SubsetsUpTo(_, _)
SubsetsUpTo(S, k) ==
    IF k = 0 THEN {{}}
    ELSE LET P == SubsetsUpTo(S, k - 1)
         IN  P \cup {p \cup {a} : p \in P, a \in S}

GridDots(W, H) == {Dot(y, x) : y \in 0..(H - 1), x \in 0..(W - 1)}

RenderInit ==
    /\ chat = PetitChat(TRUE)
    /\ shadow = chat
    /\ extra_calls = 0
    /\ last_op = "init"
    /\ freeze_at = -1
    /\ delta_ticks = 0
    /\ loops = 0
    /\ grid = {}
    /\ delta = WAIT
    /\ result = [dots |-> {}, raised |-> FALSE]
    /\ \/ \E W \in 1..MaxW, H \in 1..MaxH :
            \E D \in SubsetsUpTo(GridDots(W, H), MaxDots) :
              canvas = [dots |-> D, W |-> W, H |-> H]
       \/ \E i \in 0..(N - 1) :
            canvas = [dots |-> PoseAt(i), W |-> WIDTH, H |-> HEIGHT]
    /\ text = <<>>
    /\ pc = "render"
    /\ heap = ModuleHeap
    /\ IdlePanel

RenderStep ==
    /\ pc = "render"
    /\ text' = render_braille(canvas.dots, canvas.W, canvas.H)
    /\ pc' = "rendered"
    /\ UNCHANGED <<chat, idemVars, last_op, freeze_at, delta_ticks, loops,
                   grid, delta, result, canvas, heap, panelVars>>

RenderNext == RenderStep

SpecRender == RenderInit /\ [][RenderNext]_vars

\* the lines of a text: the pieces between line breaks
RECURSIVE Lines(_)
Lines(t) ==
    IF \A k \in 1..Len(t) : t[k] # LINE_BREAK THEN <<t>>
    ELSE LET k == CHOOSE j \in 1..Len(t) :
                    /\ t[j] = LINE_BREAK
                    /\ \A m \in 1..(j - 1) : t[m] # LINE_BREAK
         IN  <<SubSeq(t, 1, k - 1)>> \o Lines(SubSeq(t, k + 1, Len(t)))

\* number of cells that n dots fill at per dots to a cell
Cells(n, per) == IF n % per = 0 THEN n \div per ELSE (n \div per) + 1

\* weight of each sub-position <<row offset, column offset>> of a cell
DotWeight ==
    (<<0, 0>> :> 1) @@ (<<1, 0>> :> 2) @@ (<<2, 0>> :> 4) @@
    (<<0, 1>> :> 8) @@ (<<1, 1>> :> 16) @@ (<<2, 1>> :> 32) @@
    (<<3, 0>> :> 64) @@ (<<3, 1>> :> 128)

RECURSIVE SumWeights(_)
SumWeights(D) ==
    IF D = {} THEN 0
    ELSE LET c == CHOOSE d \in D : TRUE
         IN  DotWeight[<<c[1] % 4, c[2] % 2>>] + SumWeights(D \ {c})

\* C13 - Render dimensions and empty grid: for every width and height >= 1
\* and every in-bounds coordinate set the text has ceil(H/4) lines of
\* ceil(W/2) characters each; for the empty set every character is the
\* all-dots-off base character, which is not a space.
RenderDimensions ==
    pc = "rendered" =>
      LET L == Lines(text) IN
        /\ Len(L) = Cells(canvas.H, 4)
        /\ \A i \in 1..Len(L) : Len(L[i]) = Cells(canvas.W, 2)
        /\ canvas.dots = {} =>
             \A i \in 1..Len(L) : \A k \in 1..Len(L[i]) :
               L[i][k] = BRAILLE_BASE /\ L[i][k] # 32

RenderDimensionsReached ==
    /\ pc = "rendered"
    /\ canvas.W = 3
    /\ canvas.H = 5
    /\ canvas.dots = {}
    /\ text = <<10240, 10240, 10, 10240, 10240>>

\* C14 - Bit mapping: the character of cell (cr, cc) is the base plus the sum
\* of the weights 1, 2, 4, 8, 16, 32, 64, 128 of the sub-positions (0,0),
\* (1,0), (2,0), (0,1), (1,1), (2,1), (3,0), (3,1) lit inside that cell; so a
\* single lit dot (r, c) changes exactly the character of cell (r div 4,
\* c div 2), by exactly its own bit, and dots of one cell never alter the
\* character of another.
BitMapping ==
    pc = "rendered" =>
      LET L == Lines(text) IN
        /\ \A i \in 1..Len(L) : \A k \in 1..Len(L[i]) :
             L[i][k] = BRAILLE_BASE
                       + SumWeights({d \in canvas.dots :
                                       /\ d[1] \div 4 = i - 1
                                       /\ d[2] \div 2 = k - 1})
        /\ \A d \in canvas.dots :
             canvas.dots = {d} =>
               LET E == Lines(render_braille({}, canvas.W, canvas.H)) IN
                 \A i \in 1..Len(L) : \A k \in 1..Len(L[i]) :
                   IF i = (d[1] \div 4) + 1 /\ k = (d[2] \div 2) + 1
                   THEN L[i][k] = E[i][k]
                                  + DotWeight[<<d[1] % 4, d[2] % 2>>]
                   ELSE L[i][k] = E[i][k]

BitMappingReached ==
    /\ pc = "rendered"
    /\ canvas.W = 4
    /\ canvas.H = 4
    /\ canvas.dots = {Dot(3, 0), Dot(1, 3)}
    /\ text = <<10240 + 64, 10240 + 16>>

----------------------------------------------------------------------------
(* Two instances on one module: chat and shadow are composed, mounted,     *)
(* frozen and ticked independently, in any interleaving                    *)

Instances == {"chat", "shadow"}

\* instance w takes the step self -> next; the other instance is untouched
PairUpdate(w, next) ==
    IF w = "chat" THEN chat' = next /\ shadow' = shadow
    ELSE shadow' = next /\ chat' = chat

PairSelf(w) == IF w = "chat" THEN chat ELSE shadow

pairRest == <<extra_calls, freeze_at, delta_ticks, loops, applyVars,
              renderVars, panelVars>>

PairInit ==
    /\ chat = PetitChat(TRUE)
    /\ shadow = PetitChat(TRUE)
    /\ heap = ModuleHeap
    /\ extra_calls = 0
    /\ last_op = "init"
    /\ freeze_at = -1
    /\ delta_ticks = 0
    /\ loops = 0
    /\ IdleApply
    /\ IdleRender
    /\ IdlePanel

PairCompose ==
    \E w \in Instances :
      /\ ~PairSelf(w).composed
      /\ PairUpdate(w, compose(PairSelf(w)))
      /\ last_op' = "compose"
      /\ UNCHANGED <<heap, pairRest>>

PairMount ==
    \E w \in Instances :
      /\ PairSelf(w).composed
      /\ ~PairSelf(w).mounted
      /\ PairUpdate(w, on_mount(PairSelf(w)))
      /\ last_op' = "mount"
      /\ UNCHANGED <<heap, pairRest>>

PairFreeze ==
    \E w \in Instances :
      /\ PairUpdate(w, freeze_animation(PairSelf(w)))
      /\ last_op' = "freeze"
      /\ UNCHANGED <<heap, pairRest>>

PairTick ==
    \E w \in Instances :
      /\ Running(PairSelf(w))
      /\ LET after == apply_next_transition_shared(PairSelf(w), heap)
         IN  PairUpdate(w, after.self) /\ heap' = after.heap
      /\ last_op' = "tick"
      /\ UNCHANGED pairRest

PairNext == PairCompose \/ PairMount \/ PairFreeze \/ PairTick

SpecPair == PairInit /\ [][PairNext]_vars

\* C17 - Ticks leave the module's data alone: in every reachable state of
\* two interleaved instances every set object of the table, the shared ones
\* included, and STARTING_DOTS hold what was authored, and each instance's
\* dots are the pose it would have at its cursor when ticked alone.
SharedDataIntact ==
    /\ heap.starting = STARTING_DOTS
    /\ \A r \in DOMAIN heap.sets :
         heap.sets[r] = (IF r[2] = "remove" THEN OwnedDeltas[r[1]].remove
                         ELSE OwnedDeltas[r[1]].add)
    /\ \A i \in 1..N : Deref(heap, TRANSITION_REFS[i]) = TRANSITIONS[i]
    /\ chat.dots = PoseAt(chat.transition_index)
    /\ shadow.dots = PoseAt(shadow.transition_index)

SharedDataIntactReached ==
    /\ last_op = "tick"
    /\ chat.transition_index = 9
    /\ shadow.transition_index = 13
    /\ Running(chat)
    /\ Running(shadow)
    /\ chat.dots # shadow.dots

----------------------------------------------------------------------------
(* The settings panel under its host: compose, mount, key bindings *)

Values == 1..MaxValues

\* the lists of at most MaxOptions strings
OptionLists == UNION { [1..k -> Values] : k \in 0..MaxOptions }

\* sorted([...]) yields a non-decreasing list
SortedLists ==
    { o \in OptionLists : \A k \in 1..(Len(o) - 1) : o[k] <= o[k + 1] }

\* the lists of the setting that is not being varied
ShortLists == {<<>>, <<1, 2>>}

Selected(self) == self.settings[self.selected_index + 1]

Shown(self) == get_display_value(self, Selected(self))

panelRest == <<chat, idemVars, freeze_at, delta_ticks, loops, applyVars,
               renderVars, heap>>

\* the panel is run on its own: no banner instance, banner module not loaded
NoBanner == <<>>

PanelInit ==
    /\ chat = NoBanner
    /\ shadow = NoBanner
    /\ heap = NoBanner
    /\ extra_calls = 0
    /\ last_op = "init"
    /\ freeze_at = -1
    /\ delta_ticks = 0
    /\ loops = 0
    /\ IdleApply
    /\ IdleRender
    /\ \/ \E agent_options \in SortedLists, agent_profile \in Values,
             model_options \in ShortLists :
            app = AgentApp(agent_options, model_options, agent_profile, 1)
       \/ \E model_options \in OptionLists, active_model \in Values,
             agent_options \in ShortLists :
            app = AgentApp(agent_options, model_options, 1, active_model)
    /\ outbox = [posted |-> <<>>, raised |-> FALSE]
    /\ run = [start |-> 1, len |-> 0]

PanelCompose ==
    /\ app.setting_widgets = <<>>
    /\ app' = app_compose(app)
    /\ outbox' = [posted |-> <<>>, raised |-> FALSE]
    /\ last_op' = "compose"
    /\ UNCHANGED <<run, panelRest>>

PanelMount ==
    /\ app.setting_widgets # <<>>
    /\ ~app.mounted
    /\ app' = app_on_mount(app)
    /\ outbox' = [posted |-> <<>>, raised |-> FALSE]
    /\ run' = [start |-> Shown(app'), len |-> 0]
    /\ last_op' = "mount"
    /\ UNCHANGED panelRest

\* key "up"
PanelMoveUp ==
    /\ app.mounted
    /\ app' = action_move_up(app)
    /\ outbox' = [posted |-> <<>>, raised |-> FALSE]
    /\ run' = [start |-> Shown(app'), len |-> 0]
    /\ last_op' = "move_up"
    /\ UNCHANGED panelRest

\* key "down"
PanelMoveDown ==
    /\ app.mounted
    /\ app' = action_move_down(app)
    /\ outbox' = [posted |-> <<>>, raised |-> FALSE]
    /\ run' = [start |-> Shown(app'), len |-> 0]
    /\ last_op' = "move_down"
    /\ UNCHANGED panelRest

\* key "space"
PanelToggle ==
    /\ app.mounted
    /\ LET done == action_toggle_setting(app) IN
         /\ app' = done.self
         /\ outbox' = [posted |-> done.posted, raised |-> done.raised]
    /\ run' = [run EXCEPT !.len = Min(@ + 1, MaxRun)]
    /\ last_op' = "toggle"
    /\ UNCHANGED panelRest

\* key "enter"
PanelCycle ==
    /\ app.mounted
    /\ LET done == action_cycle(app) IN
         /\ app' = done.self
         /\ outbox' = [posted |-> done.posted, raised |-> done.raised]
    /\ run' = [run EXCEPT !.len = Min(@ + 1, MaxRun)]
    /\ last_op' = "cycle"
    /\ UNCHANGED panelRest

\* the host closes the panel's view of its changes
PanelClose ==
    /\ app.mounted
    /\ outbox' = [posted |-> action_close(app), raised |-> FALSE]
    /\ last_op' = "close"
    /\ UNCHANGED <<app, run, panelRest>>

PanelNext ==
    \/ PanelCompose \/ PanelMount \/ PanelMoveUp \/ PanelMoveDown
    \/ PanelToggle \/ PanelCycle \/ PanelClose

SpecPanel == PanelInit /\ [][PanelNext]_vars

IsDistinct(o) == \A j, k \in 1..Len(o) : j # k => o[j] # o[k]

\* 1-based position of v in a list of distinct entries
PositionOf(o, v) == CHOOSE k \in 1..Len(o) : o[k] = v

\* the setting that is not under the cursor
Other(self) == self.settings[2 - self.selected_index]

IsToggle(op) == op \in {"toggle", "cycle"}

\* C18 - Cycling: for the selected setting, if its options are non-empty and
\* pairwise distinct and it showed options[i] when it was selected, then
\* after k consecutive toggles it shows options[(i + k) mod len(options)].
SettingCycles ==
    (app.mounted /\ run.len < MaxRun) =>
      LET o == Selected(app).options IN
        (o # <<>> /\ IsDistinct(o) /\ run.start \in Range(o)) =>
          Shown(app)
            = o[((PositionOf(o, run.start) - 1 + run.len) % Len(o)) + 1]

SettingCyclesReached ==
    /\ app.mounted
    /\ Selected(app).options = <<3, 1, 2>>
    /\ run.start = 1
    /\ run.len = 3
    /\ Shown(app) = 1
    /\ last_op = "cycle"

\* C19 - Toggle fallback: a toggle of a setting whose shown value is not
\* among its options shows options[0] afterwards; with no options at all it
\* keeps the shown value; either way the call does not raise, the value is
\* recorded as a change of that setting and exactly one change message,
\* carrying that value, is posted.
ToggleFallback ==
    [][ (IsToggle(last_op') /\ Shown(app) \notin Range(Selected(app).options))
        => LET o == Selected(app).options
               key == Selected(app).key
               changes == IF Selected(app).category = "agent"
                          THEN app'.agent_changes ELSE app'.model_changes
           IN  /\ ~outbox'.raised
               /\ Shown(app') = (IF o # <<>> THEN o[1] ELSE Shown(app))
               /\ key \in DOMAIN changes
               /\ changes[key] = Shown(app')
               /\ Len(outbox'.posted) = 1
               /\ outbox'.posted[1].value = Shown(app') ]_vars

ToggleFallbackReached ==
    /\ last_op = "toggle"
    /\ app.selected_index = 1
    /\ Selected(app).options = <<>>
    /\ app.model_changes = [k \in {"active_model"} |-> 2]
    /\ outbox.posted = << [type |-> "ModelChanged", value |-> 2] >>

\* C20 - Frame of a toggle: a toggle writes only the change dict of the
\* selected setting's category, under that setting's key, and posts exactly
\* one message of that category; the other setting's shown value and the
\* cursor are unchanged.  The cursor stays in 0..len(settings)-1; move_up and
\* move_down step it by one with wrap-around, each undoing the other.
ToggleFrame ==
    /\ [](app.selected_index \in 0..(Len(app.settings) - 1))
    /\ [][ /\ IsToggle(last_op')
              => /\ app'.selected_index = app.selected_index
                 /\ get_display_value(app', Other(app))
                      = get_display_value(app, Other(app))
                 /\ IF app.selected_index = 0
                    THEN /\ DOMAIN app'.agent_changes = {"agent"}
                         /\ app'.model_changes = app.model_changes
                         /\ Len(outbox'.posted) = 1
                         /\ outbox'.posted[1].type = "AgentChanged"
                         /\ outbox'.posted[1].value
                              = app'.agent_changes["agent"]
                    ELSE /\ DOMAIN app'.model_changes = {"active_model"}
                         /\ app'.agent_changes = app.agent_changes
                         /\ Len(outbox'.posted) = 1
                         /\ outbox'.posted[1].type = "ModelChanged"
                         /\ outbox'.posted[1].value
                              = app'.model_changes["active_model"]
           /\ last_op' = "move_up"
              => /\ app'.selected_index
                      = (app.selected_index - 1) % Len(app.settings)
                 /\ action_move_down(app').selected_index
                      = app.selected_index
           /\ last_op' = "move_down"
              => /\ app'.selected_index
                      = (app.selected_index + 1) % Len(app.settings)
                 /\ action_move_up(app').selected_index
                      = app.selected_index
           /\ IsToggle(last_op') \/ last_op' \in {"move_up", "move_down"}
              => /\ app'.settings = app.settings
                 /\ app'.agent_loop = app.agent_loop ]_vars

ToggleFrameReached ==
    /\ last_op = "toggle"
    /\ app.selected_index = 0
    /\ DOMAIN app.agent_changes = {"agent"}
    /\ DOMAIN app.model_changes = {"active_model"}
    /\ outbox.posted = << [type |-> "AgentChanged",
                           value |-> app.agent_changes["agent"]] >>

====
